---- MODULE Spec2Model ----
(***************************************************************************)
(* A model of rproxy's fetch-and-cache pipeline: the URI model of          *)
(* src/src/conn.rs, the fetch and redirect engine of src/src/fetch.rs, the *)
(* connection dispatch and the dual-sink body copy of src/src/main.rs.     *)
(*                                                                         *)
(* Strings are sequences of one-character strings.  Offsets are 0-based,   *)
(* as in the Rust source; value[a..b] is Slice(value, a, b).               *)
(***************************************************************************)
EXTENDS Integers, Sequences, FiniteSets, TLC

(***************************************************************************)
(* Bounds of the model.                                                    *)
(***************************************************************************)
\* longest free-form part of a URI string handed to Uri::new
MaxUriLen == 4

(***************************************************************************)
(* Option<T>: None is the empty sequence, Some(x) a one-element sequence.  *)
(***************************************************************************)
None == << >>
Some(x) == << x >>
IsSome(o) == o # None
IsNone(o) == o = None
Unwrap(o) == o[1]

(***************************************************************************)
(* String helpers (std::str).                                              *)
(***************************************************************************)
\* value[a..b]; Rust panics unless a <= b <= len
SliceOk(value, a, b) == a <= b /\ b <= Len(value)
Slice(value, a, b) == SubSeq(value, a + 1, b)
\* value[a..]
SliceFrom(value, a) == SubSeq(value, a + 1, Len(value))

\* str::find: the offset of the first occurrence of pat in value
Matches(value, pat) ==
    { i \in 0..(Len(value) - Len(pat)) : SubSeq(value, i + 1, i + Len(pat)) = pat }
Find(value, pat) ==
    LET m == Matches(value, pat)
    IN  IF m = {} THEN None
        ELSE Some(CHOOSE i \in m : \A j \in m : i <= j)

StartsWith(value, pat) ==
    Len(value) >= Len(pat) /\ SubSeq(value, 1, Len(pat)) = pat
Contains(value, c) == \E i \in 1..Len(value) : value[i] = c

Digits == <<"0", "1", "2", "3", "4", "5", "6", "7", "8", "9">>
IsDigit(c) == \E d \in 1..Len(Digits) : Digits[d] = c
DigitVal(c) == (CHOOSE d \in 1..Len(Digits) : Digits[d] = c) - 1

RECURSIVE DecimalValue(_)
DecimalValue(s) ==
    IF s = << >> THEN 0
    ELSE 10 * DecimalValue(SubSeq(s, 1, Len(s) - 1)) + DigitVal(s[Len(s)])

\* the digits an unsigned parse reads: one leading '+' is accepted and skipped
UnsignedDigits(s) == IF s # << >> /\ s[1] = "+" THEN Tail(s) ELSE s

\* str::parse::<u16>: Err on an empty string, a non-digit or a value over u16::MAX
ParseU16(s) ==
    LET d == UnsignedDigits(s)
    IN  IF d = << >> \/ (\E i \in 1..Len(d) : ~IsDigit(d[i])) THEN None
        ELSE IF DecimalValue(d) > 65535 THEN None
        ELSE Some(DecimalValue(d))

\* str::parse::<u64>; every value of the model is far below u64::MAX
ParseU64(s) ==
    LET d == UnsignedDigits(s)
    IN  IF d = << >> \/ (\E i \in 1..Len(d) : ~IsDigit(d[i])) THEN None
        ELSE Some(DecimalValue(d))

SchemeSep == <<":", "/", "/">>
HttpScheme == <<"h", "t", "t", "p">> \o SchemeSep
HttpsScheme == <<"h", "t", "t", "p", "s">> \o SchemeSep

(***************************************************************************)
(* Uri::update_references and its local functions.                         *)
(***************************************************************************)
find_scheme(value) ==
    LET i == Find(value, SchemeSep)
    IN  IF IsNone(i) THEN None ELSE Some(Slice(value, 0, Unwrap(i) + 3))

\* offset just past "://", or 0
SchemeEnd(value) ==
    LET i == Find(value, SchemeSep)
    IN  IF IsNone(i) THEN 0 ELSE Unwrap(i) + 3

find_host(value) ==
    IF StartsWith(value, <<"/">>) THEN None
    ELSE LET start == SchemeEnd(value)
             rest  == SliceFrom(value, start)
             colon == Find(rest, <<":">>)
             slash == Find(rest, <<"/">>)
             end   == IF IsNone(colon)
                      THEN IF IsNone(slash) THEN Len(value)
                           ELSE Unwrap(slash) + start
                      ELSE Unwrap(colon) + start
             slice == Slice(value, start, end)
         IN  IF Contains(slice, ".") THEN Some(slice) ELSE None

scheme_to_port(value) ==
    LET s == find_scheme(value)
    IN  IF IsNone(s) THEN None
        ELSE IF Unwrap(s) = HttpScheme THEN Some(80)
        ELSE IF Unwrap(s) = HttpsScheme THEN Some(443)
        ELSE None

\* find_port asking the scheme first and reading a written port only when the
\* scheme names none
find_port_scheme_first(value) ==
    LET start == SchemeEnd(value)
        slash == Find(SliceFrom(value, start), <<"/">>)
        end   == IF IsNone(slash) THEN Len(value) ELSE Unwrap(slash) + start
        p     == Find(Slice(value, start, end), <<":">>)
    IN  IF IsSome(scheme_to_port(value)) \/ IsNone(p) THEN scheme_to_port(value)
        ELSE ParseU16(Slice(value, Unwrap(p) + start + 1, end))

find_port(value) ==
    LET start == SchemeEnd(value)
        slash == Find(SliceFrom(value, start), <<"/">>)
        end   == IF IsNone(slash) THEN Len(value) ELSE Unwrap(slash) + start
        p     == Find(Slice(value, start, end), <<":">>)
    IN  IF IsNone(p) THEN scheme_to_port(value)
        ELSE ParseU16(Slice(value, Unwrap(p) + start + 1, end))

\* offset where the path starts: 0 for a leading '/', else the first '/' after
\* the scheme; None when there is none
PathStart(value) ==
    IF StartsWith(value, <<"/">>) THEN Some(0)
    ELSE LET scheme == SchemeEnd(value)
             x == Find(SliceFrom(value, scheme), <<"/">>)
         IN  IF IsNone(x) THEN None ELSE Some(Unwrap(x) + scheme)

\* offset where the path ends: the first '?' of the whole string, else its length
PathEnd(value) ==
    LET x == Find(value, <<"?">>)
    IN  IF IsNone(x) THEN Len(value) ELSE Unwrap(x)

\* slice_path panics when it slices value[start..end] with start > end
slice_path_panics(value) ==
    /\ IsSome(PathStart(value))
    /\ ~SliceOk(value, Unwrap(PathStart(value)), PathEnd(value))

\* slice_path with the query sliced from the '?' itself (value[x..])
slice_path_keeps_mark(value) ==
    IF IsNone(PathStart(value))
    THEN [path |-> None, query |-> None, path_and_query |-> None]
    ELSE LET start == Unwrap(PathStart(value))
             x     == Find(value, <<"?">>)
         IN  [path  |-> Some(Slice(value, start, PathEnd(value))),
              query |-> IF IsNone(x) THEN None
                        ELSE Some(SliceFrom(value, Unwrap(x))),
              path_and_query |-> Some(SliceFrom(value, start))]

slice_path(value) ==
    IF IsNone(PathStart(value))
    THEN [path |-> None, query |-> None, path_and_query |-> None]
    ELSE LET start == Unwrap(PathStart(value))
             x     == Find(value, <<"?">>)
         IN  [path  |-> Some(Slice(value, start, PathEnd(value))),
              query |-> IF IsNone(x) THEN None
                        ELSE Some(SliceFrom(value, Unwrap(x) + 1)),
              path_and_query |-> Some(SliceFrom(value, start))]

\* Uri::new: the Uri, or a panic (no Uri is returned)
UriNew(uri) ==
    IF slice_path_panics(uri)
    THEN [panicked |-> TRUE, uri |-> uri, scheme |-> None, host |-> None,
          port |-> None, path |-> None, query |-> None, path_and_query |-> None]
    ELSE [panicked |-> FALSE, uri |-> uri,
          scheme |-> find_scheme(uri),
          host   |-> find_host(uri),
          port   |-> find_port(uri),
          path   |-> slice_path(uri).path,
          query  |-> slice_path(uri).query,
          path_and_query |-> slice_path(uri).path_and_query]

\* Uri::kind answering AbsolutePath only for a target without scheme and port
kind_bare_path_only(u) ==
    IF (IsSome(u.scheme) \/ IsSome(u.port)) /\ IsSome(u.host) /\ IsSome(u.path)
    THEN "AbsoluteAddress"
    ELSE IF IsSome(u.host) /\ IsSome(u.path) THEN "RelativeAddress"
    ELSE IF /\ IsSome(u.path) /\ StartsWith(Unwrap(u.path), <<"/">>)
            /\ IsNone(u.scheme) /\ IsNone(u.port)
    THEN "AbsolutePath"
    ELSE "Invalid"

\* Uri::kind
kind(u) ==
    IF (IsSome(u.scheme) \/ IsSome(u.port)) /\ IsSome(u.host) /\ IsSome(u.path)
    THEN "AbsoluteAddress"
    ELSE IF IsSome(u.host) /\ IsSome(u.path) THEN "RelativeAddress"
    ELSE IF IsSome(u.path) /\ StartsWith(Unwrap(u.path), <<"/">>) THEN "AbsolutePath"
    ELSE "Invalid"

\* u16's Display: the decimal digits of n
RECURSIVE DecimalString(_)
DecimalString(n) ==
    IF n < 10 THEN << Digits[n + 1] >>
    ELSE DecimalString(n \div 10) \o << Digits[(n % 10) + 1] >>

\* Uri::host_and_port: format!("{h}:{p}")
host_and_port(u) ==
    IF IsSome(u.host) /\ IsSome(u.port)
    THEN Some(Unwrap(u.host) \o <<":">> \o DecimalString(Unwrap(u.port)))
    ELSE None

(***************************************************************************)
(* State.                                                                  *)
(***************************************************************************)
VARIABLES
    uriIn,      \* the string handed to Uri::new
    uriOut,     \* None before the call, Some(result of Uri::new) after it
    file,       \* the cache file at cache_file_path
    flights,    \* the Flights registry: cache key -> FlightState
    origin,     \* what the origins answer: the redirect responses they will
                \* still give, and the 200 responses they choose from ("any",
                \* or "framed" for ConcOkResponses)
    task        \* one record per client-handling task

vars == <<uriIn, uriOut, file, flights, origin, task>>

(***************************************************************************)
(* URI specification: Uri::new applied to bounded strings.                 *)
(***************************************************************************)
Alphabet == {"a", ".", ":", "/", "?", "9", "+"}

RECURSIVE StringsUpTo(_)
StringsUpTo(n) ==
    IF n = 0 THEN { << >> }
    ELSE LET shorter == StringsUpTo(n - 1)
         IN  shorter \cup { Append(s, c) : s \in { x \in shorter : Len(x) = n - 1 },
                                           c \in Alphabet }

UriPrefixes == { << >>, HttpScheme, HttpsScheme, <<"a">> \o SchemeSep }
UriSuffixes == { << >>, <<"9", "9", "9", "9">> }
UriInputs ==
    { p \o m \o s : p \in UriPrefixes, m \in StringsUpTo(MaxUriLen), s \in UriSuffixes }

ParseUri ==
    /\ IsNone(uriOut)
    /\ uriOut' = Some(UriNew(uriIn))
    /\ UNCHANGED <<uriIn, file, flights, origin, task>>

(***************************************************************************)
(* The engine's environment: client requests, origins and their responses. *)
(***************************************************************************)
\* redirect responses the origins give to a single request
MaxRedirectResponses == 7
\* redirect responses the origins give when two tasks run concurrently
ConcRedirectResponses == 1
\* longest body, in segments (one segment is what one read returns)
MaxBody == 2
\* longest body when two tasks run concurrently
ConcBody == 1
\* redirect hops fetch_and_serve_file accepts
MaxRedirects == 5

Tasks == {"t1", "t2"}
CacheKey == "cache_file_path"

HostA == <<"a", ".", "a">>
HostB == <<"a", ".", "b">>
\* targets an origin connection can be opened for, in the order origins name them
TargetList ==
    << HttpScheme \o HostA \o <<"/">>,
       HttpScheme \o HostA \o <<"/", "a">>,
       HttpsScheme \o HostA \o <<"/">>,
       HttpScheme \o HostA \o <<":", "8", "/">>,
       HttpScheme \o HostB \o <<"/", "?", "a">>,
       HttpsScheme \o HostB \o <<":", "8", "/", "a">>,
       HttpScheme \o HostB \o <<"/">>,
       HttpScheme \o HostB \o <<"/", "a">> >>
\* targets no origin connection can be opened for: a bare path, a target with
\* no scheme, an unsupported scheme, no path, and one Uri::new panics on
PathOnlyTarget == <<"/", "a">>
NoSchemeTarget == HostA \o <<":", "8", "/", "a">>
FtpTarget == <<"f", "t", "p">> \o SchemeSep \o HostA \o <<"/">>
NoPathTarget == HttpScheme \o HostA
PanicTarget == HttpScheme \o HostA \o <<"?", "/">>
BadTargets == {PathOnlyTarget, NoSchemeTarget, FtpTarget, NoPathTarget, PanicTarget}

\* request targets of clients (the header parser has built their Uri already)
ClientTargets == {TargetList[1], TargetList[3], NoSchemeTarget, FtpTarget, NoPathTarget}

\* the version and the headers of client requests: none, a range request, and
\* a range request that names a Host of its own
BareClient == [version |-> "HTTP/1.0", headers |-> [n \in {} |-> << >>]]
RangeClient ==
    [version |-> "HTTP/1.1",
     headers |-> [n \in {"Accept", "Range"} |->
                    IF n = "Accept" THEN <<"a">> ELSE <<"1", "-">>]]
HostClient ==
    [version |-> "HTTP/1.1",
     headers |-> [n \in {"Accept", "Host", "Range"} |->
                    IF n = "Accept" THEN <<"a">>
                    ELSE IF n = "Host" THEN <<"p">> ELSE <<"1", "-">>]]
ClientHeaders == {BareClient, RangeClient, HostClient}

Range(seq) == { seq[i] : i \in 1..Len(seq) }
Last(seq) == seq[Len(seq)]

\* the Location values an origin names: a visited target, the first target not
\* visited yet, or a target that cannot be connected to
FreshTargets(visited) ==
    LET idx == { i \in 1..Len(TargetList) : TargetList[i] \notin Range(visited) }
    IN  IF idx = {} THEN {}
        ELSE { TargetList[CHOOSE i \in idx : \A j \in idx : i <= j] }
Locations(visited) == Range(visited) \cup FreshTargets(visited) \cup BadTargets

ContentLengths == { DecimalString(n) : n \in 0..MaxBody } \cup { <<"x">> }
NoHeaders ==
    [location |-> None, transfer_encoding |-> None, content_length |-> None,
     cache_control |-> None, body |-> 0]
\* 200 responses: chunked or another transfer encoding, or a Content-Length,
\* or a transfer encoding together with a Content-Length
OkResponses ==
    { [NoHeaders EXCEPT !.transfer_encoding = Some(te), !.cache_control = cc, !.body = b]
        @@ [status |-> 200] :
        te \in {"chunked", "gzip"},
        cc \in {None, Some("no-store"), Some("private"), Some("max-age=0")},
        b \in 0..MaxBody }
    \cup
    { [NoHeaders EXCEPT !.content_length = cl, !.cache_control = cc,
                        !.body = IF IsSome(cl) /\ Unwrap(cl) # <<"x">>
                                 THEN DecimalValue(Unwrap(cl)) ELSE 0]
        @@ [status |-> 200] :
        cl \in {None} \cup { Some(c) : c \in ContentLengths },
        cc \in {None, Some("no-store"), Some("private"), Some("max-age=0")} }
    \cup
    { [NoHeaders EXCEPT !.transfer_encoding = Some(te),
                        !.content_length = Some(DecimalString(1)), !.body = 1]
        @@ [status |-> 200] :
        te \in {"chunked", "gzip"} }
\* the 200 responses of the concurrent specification: a framed body of at most
\* ConcBody segments, persisted or not
ConcOkResponses ==
    { r \in OkResponses :
        /\ r.body <= ConcBody
        /\ r.cache_control \in {None, Some("no-store")}
        /\ \/ r.transfer_encoding = Some("chunked") /\ IsNone(r.content_length)
           \/ /\ IsNone(r.transfer_encoding)
              /\ IsSome(r.content_length)
              /\ IsSome(ParseU64(Unwrap(r.content_length))) }
RedirectCodes == {301, 302, 303, 307, 308}
RedirectResponses(visited) ==
    { [NoHeaders EXCEPT !.location = loc] @@ [status |-> code] :
        code \in RedirectCodes,
        loc \in {None} \cup { Some(l) : l \in Locations(visited) } }
OtherResponses == { NoHeaders @@ [status |-> 404] }

(***************************************************************************)
(* Collaborators of the engine that live in the http module.               *)
(***************************************************************************)
\* where task t stands; "off" for a task the specification does not run
Pc(t) == IF t \in DOMAIN task THEN task[t].pc ELSE "off"

\* keep_alive_if: the disposition the client's own request asks for
keep_alive_if(tk) == IF tk.keep_alive THEN "KeepAlive" ELSE "Close"

\* the function returns: the FetchRequest and the File it owns are dropped
Return(tk, cr) ==
    [tk EXCEPT !.pc = "done", !.ret = cr, !.conn = None, !.handle = "none"]

\* respond_with: writes the bodiless response `status` to the client and
\* returns cr, or Close when that write fails
respond_with(tk, cr, status, write_ok) ==
    Return([tk EXCEPT !.responses = Append(@, status)],
           IF write_ok THEN cr ELSE "Close")

\* Flights::takeoff: registers the framing of the fetch writing `key`
takeoff(key, state) == [flights EXCEPT ![key] = Some(state)]

(***************************************************************************)
(* handle_connection: a cached file is served, anything else is fetched.   *)
(***************************************************************************)
Dispatch(t) ==
    /\ Pc(t) = "accepted"
    /\ task' = [task EXCEPT ![t].pc =
                   IF file.exists THEN "serve_existing" ELSE "from_uri",
                             ![t].fetching = ~file.exists]
    /\ UNCHANGED <<uriIn, uriOut, file, flights, origin>>

\* serve_existing_file: Content-Length is the size the file has when it is opened
ServeExisting(t) ==
    /\ Pc(t) = "serve_existing"
    /\ task' = [task EXCEPT ![t] =
                   IF file.exists
                   THEN Return([@ EXCEPT !.served = Some(file.size),
                                         !.responses = Append(@, 200)], "none")
                   ELSE Return([@ EXCEPT !.responses = Append(@, 500)], "none")]
    /\ UNCHANGED <<uriIn, uriOut, file, flights, origin>>

(***************************************************************************)
(* FetchRequest::from_uri: the conditions under which a connection to the  *)
(* origin of `u` is attempted at all.                                      *)
(***************************************************************************)
\* from_uri connecting to whatever host_and_port names, whatever the scheme
from_uri_attempts_any_scheme(u) == IsSome(host_and_port(u))

from_uri_attempts(u) ==
    /\ IsSome(host_and_port(u))
    /\ IsSome(u.scheme)
    /\ Unwrap(u.scheme) \in {HttpScheme, HttpsScheme}

\* the FetchRequest from_uri returns: a copy of the target's string (parsed
\* again by Uri::from) and no redirect; None when no connection is attempted
\* or the attempt (TcpStream::connect, then the TLS handshake) fails
from_uri(u, tcp_ok) ==
    IF from_uri_attempts(u) /\ tcp_ok
    THEN Some([uri |-> UriNew(u.uri).uri, redirect |-> None])
    ELSE None

\* the connection failing answered as the earlier engine did, 502 Bad Gateway
connect_failed_bad_gateway(tk, write_ok) == respond_with(tk, "Close", 502, write_ok)

\* the Err arms of from_uri, connect and redirect
connect_failed(tk, write_ok) == respond_with(tk, "Close", 500, write_ok)

\* fetch_and_serve_file, up to the redirect loop
Connect(t) ==
    /\ Pc(t) = "from_uri"
    /\ \E tcp_ok, write_ok \in BOOLEAN :
         LET tk == task[t]
             u  == UriNew(tk.request)
         IN  task' = [task EXCEPT ![t] =
                 IF IsSome(from_uri(u, tcp_ok))
                 THEN [tk EXCEPT !.pc = "send", !.conn = from_uri(u, tcp_ok),
                                 !.tcp_attempts = @ + 1,
                                 !.redirects = << Unwrap(from_uri(u, tcp_ok)).uri >>]
                 ELSE connect_failed(
                        [tk EXCEPT !.tcp_attempts =
                            IF from_uri_attempts(u) THEN @ + 1 ELSE @],
                        write_ok)]
    /\ UNCHANGED <<uriIn, uriOut, file, flights, origin>>

(***************************************************************************)
(* fetch: build and send the request for the last target of the history.   *)
(***************************************************************************)
\* the header mapping: a function from the names present to their values;
\* names are compared as the header parser stores them
HeaderRemove(headers, name) ==
    [n \in DOMAIN headers \ {name} |-> headers[n]]
HeaderInsert(headers, name, value) ==
    [n \in DOMAIN headers \cup {name} |-> IF n = name THEN value ELSE headers[n]]

\* the outgoing request with the client's headers cloned as they are
OutgoingRequest_keeps_range(tk, uri) ==
    [method  |-> "GET",
     request |-> Unwrap(uri.path_and_query),
     version |-> tk.version,
     headers |-> HeaderInsert(tk.headers, "Host", Unwrap(uri.host))]

OutgoingRequest(tk, uri) ==
    [method  |-> "GET",
     request |-> Unwrap(uri.path_and_query),
     version |-> tk.version,
     headers |-> HeaderInsert(HeaderRemove(tk.headers, "Range"),
                              "Host", Unwrap(uri.host))]

SendRequest(t) ==
    /\ Pc(t) = "send"
    /\ \E send_ok, write_ok \in BOOLEAN :
         LET tk == task[t]
             current_uri == UriNew(Last(tk.redirects))
         IN  task' = [task EXCEPT ![t] =
                 IF IsNone(current_uri.host) \/ IsNone(current_uri.path_and_query)
                 THEN respond_with(tk, keep_alive_if(tk), 400, write_ok)
                 ELSE IF ~send_ok
                 THEN respond_with(tk, keep_alive_if(tk), 500, write_ok)
                 ELSE [tk EXCEPT !.pc = "await_header",
                                 !.sent = Append(@, OutgoingRequest(tk, current_uri))]]
    /\ UNCHANGED <<uriIn, uriOut, file, flights, origin>>

(***************************************************************************)
(* fetch: the origin's response header and the dispatch on its status.     *)
(***************************************************************************)
\* a..b as a Rust range pattern: b is excluded
ExclusiveRange(a, b) == a..(b - 1)
\* the match arm `301..303 | 307..308`
redirect_arm(code) ==
    code \in ExclusiveRange(301, 303) \cup ExclusiveRange(307, 308)

Responses(tk) ==
    (IF origin.ok = "any" THEN OkResponses ELSE ConcOkResponses)
      \cup OtherResponses
      \cup (IF origin.redirects > 0 THEN RedirectResponses(tk.redirects) ELSE {})

ReceiveHeader(t) ==
    /\ Pc(t) = "await_header"
    /\ \E parsed, write_ok \in BOOLEAN :
       \E r \in Responses(task[t]) :
         LET tk == task[t]
         IN  /\ task' = [task EXCEPT ![t] =
                   IF ~parsed
                   THEN respond_with(tk, keep_alive_if(tk), 502, write_ok)
                   ELSE IF r.status = 200
                   THEN [tk EXCEPT !.pc = "create_file", !.resp = Some(r)]
                   ELSE IF redirect_arm(r.status)
                   THEN IF IsNone(r.location)
                        THEN respond_with([tk EXCEPT !.resp = Some(r)],
                                          keep_alive_if(tk), 400, write_ok)
                        ELSE [tk EXCEPT !.pc = "redirect", !.resp = Some(r),
                                        !.fetch_result = r.location]
                   ELSE Return([tk EXCEPT !.resp = Some(r),
                                          !.responses = Append(@, r.status)],
                               IF write_ok THEN keep_alive_if(tk) ELSE "Close")]
             /\ origin' = IF parsed /\ r.status \in RedirectCodes
                          THEN [origin EXCEPT !.redirects = @ - 1] ELSE origin
    /\ UNCHANGED <<uriIn, uriOut, file, flights>>

(***************************************************************************)
(* fetch_and_serve_file: the Redirect arm of the loop.                     *)
(***************************************************************************)
\* the hop check one too late (redirects.len() > 6)
hop_limit_exceeded_late(redirects) == Len(redirects) > MaxRedirects + 1
\* the cycle check against the current target only
already_visited_last_only(redirects, r) == r = redirects[Len(redirects)]
hop_limit_exceeded(redirects) == Len(redirects) > MaxRedirects
already_visited(redirects, r) == r \in Range(redirects)

\* a panic unwinds the task: it never returns, and what it owns is dropped
Panic(tk) == [tk EXCEPT !.pc = "panicked", !.conn = None, !.handle = "none"]

FollowRedirect(t) ==
    /\ Pc(t) = "redirect"
    /\ \E tcp_ok, write_ok \in BOOLEAN :
         LET tk == task[t]
             r  == Unwrap(tk.fetch_result)
             pushed  == [tk EXCEPT !.redirects = Append(@, r)]
             new_uri == UriNew(r)
         IN  task' = [task EXCEPT ![t] =
                 IF hop_limit_exceeded(tk.redirects)
                 THEN respond_with(tk, "Close", 500, write_ok)
                 ELSE IF already_visited(tk.redirects, r)
                 THEN respond_with(tk, "Close", 500, write_ok)
                 ELSE IF new_uri.panicked THEN Panic(pushed)
                 ELSE IF IsSome(from_uri(new_uri, tcp_ok))
                 THEN [pushed EXCEPT !.pc = "send",
                                     !.conn = from_uri(new_uri, tcp_ok),
                                     !.tcp_attempts = @ + 1,
                                     !.reconnects = @ + 1,
                                     !.resp = None, !.fetch_result = None]
                 ELSE connect_failed(
                        [pushed EXCEPT !.tcp_attempts =
                            IF from_uri_attempts(new_uri) THEN @ + 1 ELSE @],
                        write_ok)]
    /\ UNCHANGED <<uriIn, uriOut, file, flights, origin>>

(***************************************************************************)
(* fetch, status 200: the cache file, the header, the policy, the framing. *)
(***************************************************************************)
\* File::create: a new file, or the existing one truncated
CreateFile(t) ==
    /\ Pc(t) = "create_file"
    /\ \E create_ok, write_ok \in BOOLEAN :
         LET tk == task[t]
             inode == IF file.exists THEN file.inode ELSE t
         IN  IF create_ok
             THEN /\ file' = [exists |-> TRUE, size |-> 0, inode |-> inode]
                  /\ task' = [task EXCEPT ![t] =
                        [tk EXCEPT !.pc = "write_header", !.handle = inode,
                                   !.offset = 0]]
             ELSE /\ task' = [task EXCEPT ![t] =
                        respond_with(tk, keep_alive_if(tk), 500, write_ok)]
                  /\ UNCHANGED file
    /\ UNCHANGED <<uriIn, uriOut, flights, origin>>

\* fetch_cache_policy: (write_file, write_stream)
fetch_cache_policy(r) ==
    IF IsNone(r.cache_control) THEN <<TRUE, TRUE>>
    ELSE IF Unwrap(r.cache_control) \in {"no-store", "private"} THEN <<FALSE, TRUE>>
    ELSE <<TRUE, TRUE>>

\* the header write with its result discarded: the engine goes on either way
WriteHeader_ignores_failure(t) ==
    /\ Pc(t) = "write_header"
    /\ \E write_ok \in BOOLEAN :
         LET tk == [task[t] EXCEPT !.responses = Append(@, 200),
                                   !.header = IF write_ok THEN "written" ELSE "failed"]
             policy == fetch_cache_policy(Unwrap(tk.resp))
         IN  task' = [task EXCEPT ![t] =
                 [tk EXCEPT !.pc = "framing", !.write_file = policy[1],
                            !.write_stream = policy[2]]]
    /\ UNCHANGED <<uriIn, uriOut, file, flights, origin>>

\* write_to_client, then fetch_cache_policy; header records how the write of
\* the 200 header to the client went
WriteHeader(t) ==
    /\ Pc(t) = "write_header"
    /\ \E write_ok \in BOOLEAN :
         LET tk == [task[t] EXCEPT !.responses = Append(@, 200),
                                   !.header = IF write_ok THEN "written" ELSE "failed"]
             policy == fetch_cache_policy(Unwrap(tk.resp))
         IN  task' = [task EXCEPT ![t] =
                 IF write_ok
                 THEN [tk EXCEPT !.pc = "framing", !.write_file = policy[1],
                                 !.write_stream = policy[2]]
                 ELSE Return(tk, "Close")]
    /\ UNCHANGED <<uriIn, uriOut, file, flights, origin>>

Chunks == [framing |-> "Chunks", length |-> 0]
Length(n) == [framing |-> "Length", length |-> n]

\* the framing decided from Content-Length whenever the encoding is not chunked
framing_of_length_unless_chunked(r) ==
    IF IsSome(r.transfer_encoding) /\ Unwrap(r.transfer_encoding) = "chunked"
    THEN [flight |-> Some(Chunks), status |-> None]
    ELSE IF IsNone(r.content_length)
    THEN [flight |-> None, status |-> Some(500)]
    ELSE IF IsNone(ParseU64(Unwrap(r.content_length)))
    THEN [flight |-> None, status |-> Some(400)]
    ELSE [flight |-> Some(Length(Unwrap(ParseU64(Unwrap(r.content_length))))),
          status |-> None]

\* what the headers of a 200 response say about the framing of its body: the
\* FlightState to register, or the status of the error response
framing_of(r) ==
    IF IsSome(r.transfer_encoding)
    THEN IF Unwrap(r.transfer_encoding) = "chunked"
         THEN [flight |-> Some(Chunks), status |-> None]
         ELSE [flight |-> None, status |-> Some(400)]
    ELSE IF IsNone(r.content_length)
    THEN [flight |-> None, status |-> Some(500)]
    ELSE IF IsNone(ParseU64(Unwrap(r.content_length)))
    THEN [flight |-> None, status |-> Some(400)]
    ELSE [flight |-> Some(Length(Unwrap(ParseU64(Unwrap(r.content_length))))),
          status |-> None]

\* the framing of the body and the registration of the flight; takeoffs counts
\* the calls of takeoff
Framing(t) ==
    /\ Pc(t) = "framing"
    /\ \E write_ok \in BOOLEAN :
         LET tk == task[t]
             r  == Unwrap(tk.resp)
             f  == framing_of(r)
         IN  IF IsSome(f.flight)
             THEN /\ flights' = takeoff(CacheKey, Unwrap(f.flight))
                  /\ task' = [task EXCEPT ![t] =
                        [tk EXCEPT !.pc = "copy",
                                   !.takeoffs = @ + 1,
                                   !.left = IF Unwrap(f.flight) = Chunks
                                            THEN r.body
                                            ELSE Unwrap(f.flight).length]]
             ELSE /\ task' = [task EXCEPT ![t] =
                        respond_with(tk, keep_alive_if(tk), Unwrap(f.status), write_ok)]
                  /\ UNCHANGED flights
    /\ UNCHANGED <<uriIn, uriOut, file, origin>>

(***************************************************************************)
(* The dual-sink body copy: one segment read from the origin is offered to *)
(* the live sinks.  file_ok and client_ok are the outcomes the two writes  *)
(* have when they are attempted.                                           *)
(***************************************************************************)
\* the copy giving up on the file once the client is dead
write_segment_drops_file(write_file, write_stream, file_ok, client_ok) ==
    IF write_file /\ write_stream
    THEN [write_file   |-> IF ~file_ok THEN FALSE ELSE write_file,
          write_stream |-> IF file_ok /\ ~client_ok THEN FALSE ELSE write_stream,
          file_attempt |-> TRUE, client_attempt |-> TRUE, brk |-> FALSE]
    ELSE IF write_stream
    THEN [write_file |-> write_file, write_stream |-> write_stream,
          file_attempt |-> FALSE, client_attempt |-> TRUE, brk |-> ~client_ok]
    ELSE [write_file |-> write_file, write_stream |-> write_stream,
          file_attempt |-> FALSE, client_attempt |-> FALSE, brk |-> TRUE]

write_segment(write_file, write_stream, file_ok, client_ok) ==
    IF write_file /\ write_stream
    THEN \* join!(file.write_all(data), stream.write_all(data))
         [write_file   |-> IF ~file_ok THEN FALSE ELSE write_file,
          write_stream |-> IF file_ok /\ ~client_ok THEN FALSE ELSE write_stream,
          file_attempt |-> TRUE, client_attempt |-> TRUE, brk |-> FALSE]
    ELSE IF write_file
    THEN [write_file |-> write_file, write_stream |-> write_stream,
          file_attempt |-> TRUE, client_attempt |-> FALSE, brk |-> ~file_ok]
    ELSE IF write_stream
    THEN [write_file |-> write_file, write_stream |-> write_stream,
          file_attempt |-> FALSE, client_attempt |-> TRUE, brk |-> ~client_ok]
    ELSE [write_file |-> write_file, write_stream |-> write_stream,
          file_attempt |-> FALSE, client_attempt |-> FALSE, brk |-> TRUE]

\* the origin has delivered the whole body (left counts the segments it still
\* has to send): the copy ends
body_complete(tk) == tk.left = 0

\* a successful write through the handle: the file at the path grows only when
\* the handle still refers to it
FileAfterWrite(tk) ==
    IF file.exists /\ file.inode = tk.handle /\ tk.offset + 1 > file.size
    THEN [file EXCEPT !.size = tk.offset + 1]
    ELSE file

\* read counts the segments read so far; file_failed and client_failed hold the
\* segment at which a write to that sink first failed (0: none); late_write
\* records a write attempted on a sink after one of its writes had failed
CopySegment(t) ==
    /\ Pc(t) = "copy"
    /\ LET tk == task[t]
       IN  \/ /\ body_complete(tk)
              /\ task' = [task EXCEPT ![t] =
                    [tk EXCEPT !.pc = "shutdown", !.stopped = "complete"]]
              /\ UNCHANGED file
           \/ \* the origin closes the connection or the read fails
              /\ ~body_complete(tk)
              /\ task' = [task EXCEPT ![t] =
                    [tk EXCEPT !.pc = "shutdown", !.stopped = "origin"]]
              /\ UNCHANGED file
           \/ /\ ~body_complete(tk)
              /\ \E file_ok, client_ok \in BOOLEAN :
                   LET w == write_segment(tk.write_file, tk.write_stream,
                                          file_ok, client_ok)
                       file_written == w.file_attempt /\ file_ok
                   IN  /\ task' = [task EXCEPT ![t] =
                             [tk EXCEPT
                                !.left = @ - 1,
                                !.read = @ + 1,
                                !.write_file = w.write_file,
                                !.write_stream = w.write_stream,
                                !.offset = IF file_written THEN @ + 1 ELSE @,
                                !.file_failed =
                                    IF @ = 0 /\ w.file_attempt /\ ~file_ok
                                    THEN tk.read + 1 ELSE @,
                                !.client_failed =
                                    IF @ = 0 /\ w.client_attempt /\ ~client_ok
                                    THEN tk.read + 1 ELSE @,
                                !.late_write =
                                    @ \/ (w.file_attempt /\ tk.file_failed > 0)
                                      \/ (w.client_attempt /\ tk.client_failed > 0),
                                !.pc = IF w.brk THEN "shutdown" ELSE "copy",
                                !.stopped = IF w.brk THEN "sinks" ELSE @]]
                       /\ file' = IF file_written THEN FileAfterWrite(tk) ELSE file
    /\ UNCHANGED <<uriIn, uriOut, flights, origin>>

(***************************************************************************)
(* fetch, after the copy: shutdowns, then the fate of the cache file.      *)
(***************************************************************************)
Finish(t) ==
    /\ Pc(t) = "shutdown"
    /\ LET tk == [task[t] EXCEPT !.client_shutdown = task[t].write_stream]
       IN  IF tk.write_file
           THEN /\ task' = [task EXCEPT ![t] = Return(tk, keep_alive_if(tk))]
                /\ UNCHANGED file
           ELSE IF file.exists
           THEN /\ task' = [task EXCEPT ![t] = Return(tk, "Close")]
                /\ file' = [file EXCEPT !.exists = FALSE, !.size = 0]
           ELSE /\ task' = [task EXCEPT ![t] = Return(tk, keep_alive_if(tk))]
                /\ UNCHANGED file
    /\ UNCHANGED <<uriIn, uriOut, flights, origin>>

(***************************************************************************)
(* Specifications.                                                         *)
(***************************************************************************)
NewTask(request, client, keep_alive) ==
    [pc |-> "accepted", fetching |-> FALSE,
     request |-> request, version |-> client.version, headers |-> client.headers,
     keep_alive |-> keep_alive,
     redirects |-> << >>, conn |-> None, tcp_attempts |-> 0,
     sent |-> << >>, reconnects |-> 0,
     resp |-> None, fetch_result |-> None, header |-> "none", takeoffs |-> 0,
     handle |-> "none", offset |-> 0,
     write_file |-> FALSE, write_stream |-> FALSE, left |-> 0, read |-> 0,
     file_failed |-> 0, client_failed |-> 0, late_write |-> FALSE,
     stopped |-> "no", client_shutdown |-> FALSE,
     responses |-> << >>, served |-> None, ret |-> "none"]

NoFile == [exists |-> FALSE, size |-> 0, inode |-> "none"]
CachedFile == [exists |-> TRUE, size |-> 1, inode |-> "cached"]

\* one client request, against any behaviour of the origins
Init ==
    /\ uriIn = << >>
    /\ uriOut = None
    /\ file \in {NoFile, CachedFile}
    /\ flights = [k \in {CacheKey} |-> None]
    /\ origin = [redirects |-> MaxRedirectResponses, ok |-> "any"]
    /\ \E request \in ClientTargets, client \in ClientHeaders, keep_alive \in BOOLEAN :
         task = [t \in {"t1"} |-> NewTask(request, client, keep_alive)]

Step(t) ==
    \/ Dispatch(t)
    \/ ServeExisting(t)
    \/ Connect(t)
    \/ SendRequest(t)
    \/ ReceiveHeader(t)
    \/ FollowRedirect(t)
    \/ CreateFile(t)
    \/ WriteHeader(t)
    \/ Framing(t)
    \/ CopySegment(t)
    \/ Finish(t)

Next == \E t \in Tasks : Step(t)

Spec == Init /\ [][Next]_vars

\* two client requests for the same cache key, handled concurrently
InitConc ==
    /\ uriIn = << >>
    /\ uriOut = None
    /\ file = NoFile
    /\ flights = [k \in {CacheKey} |-> None]
    /\ origin = [redirects |-> ConcRedirectResponses, ok |-> "framed"]
    /\ \E keep_alive \in BOOLEAN :
         task = [t \in Tasks |-> NewTask(TargetList[1], BareClient, keep_alive)]

SpecConc == InitConc /\ [][Next]_vars

\* Uri::new on every bounded string
InitUri ==
    /\ uriIn \in UriInputs
    /\ uriOut = None
    /\ file = NoFile
    /\ flights = [k \in {CacheKey} |-> None]
    /\ origin = [redirects |-> 0, ok |-> "any"]
    /\ task = [t \in {} |-> NewTask(<< >>, BareClient, FALSE)]

NextUri == ParseUri

SpecUri == InitUri /\ [][NextUri]_vars

(***************************************************************************)
(* Properties.                                                             *)
(***************************************************************************)
NoDuplicates(seq) == \A i, j \in 1..Len(seq) : seq[i] = seq[j] => i = j
\* the response is one fetch_cache_policy persists
Persisted(tk) == IsSome(tk.resp) /\ fetch_cache_policy(Unwrap(tk.resp))[1]

\* C1: at any instant at most one task holds an open origin connection for
\* the cache key (all tasks of SpecConc request the same key)
C1_OneOriginConnection ==
    Cardinality({ t \in DOMAIN task : IsSome(task[t].conn) }) <= 1

\* C2: while one task has created the cache file and is copying the body into
\* it, no other task holds a handle that creates, truncates or writes that file
C2_SingleWriter ==
    \A a, b \in DOMAIN task :
        (a # b /\ task[a].pc = "copy" /\ task[a].handle # "none")
            => task[b].handle = "none"

\* C3: a request reconnects at most MaxRedirects (5) times and sends at most 6
\* origin requests, and a redirect received after 5 followed hops ends in the
\* response 500 and the disposition Close, whatever its Location
C3_HopLimit ==
    \A t \in DOMAIN task :
        /\ task[t].reconnects <= MaxRedirects
        /\ Len(task[t].sent) <= MaxRedirects + 1
        /\ (/\ task[t].pc = "done"
            /\ IsSome(task[t].fetch_result)
            /\ task[t].reconnects = MaxRedirects)
              => (task[t].ret = "Close" /\ task[t].responses = << 500 >>)

\* five hops were followed and a sixth redirect, to a target never visited, was
\* refused
C3_Witness ==
    \E t \in DOMAIN task :
        /\ Pc(t) = "done"
        /\ task[t].reconnects = MaxRedirects
        /\ Len(task[t].sent) = MaxRedirects + 1
        /\ IsSome(task[t].fetch_result)
        /\ Unwrap(task[t].fetch_result) \notin Range(task[t].redirects)
        /\ task[t].ret = "Close"

\* C4: a redirect to a target already in the history is rejected in that very
\* step with 500 and Close, with no reconnect and no further origin request;
\* the history never holds a target twice
C4_CycleRejected ==
    [][\A t \in DOMAIN task :
          /\ NoDuplicates(task'[t].redirects)
          /\ (/\ task[t].pc = "redirect"
              /\ already_visited(task[t].redirects, Unwrap(task[t].fetch_result))
              /\ task'[t] # task[t])
                => /\ task'[t].pc = "done"
                   /\ task'[t].ret = "Close"
                   /\ task'[t].responses = Append(task[t].responses, 500)
                   /\ task'[t].sent = task[t].sent
                   /\ task'[t].reconnects = task[t].reconnects
                   /\ task'[t].redirects = task[t].redirects]_vars

\* after a followed hop the origin redirected back to the original target, and
\* the request ended there
C4_Witness ==
    \E t \in DOMAIN task :
        /\ Pc(t) = "done"
        /\ Len(task[t].redirects) >= 2
        /\ task[t].reconnects < MaxRedirects
        /\ task[t].fetch_result = Some(task[t].redirects[1])
        /\ task[t].ret = "Close"
        /\ task[t].responses = << 500 >>

\* C5: every response with a status in {301, 302, 303, 307, 308} and a Location
\* yields Redirect(location); none is passed through
C5_AllRedirectCodesFollowed ==
    \A t \in DOMAIN task :
        (/\ IsSome(task[t].resp)
         /\ Unwrap(task[t].resp).status \in RedirectCodes
         /\ IsSome(Unwrap(task[t].resp).location))
           => /\ task[t].fetch_result = Unwrap(task[t].resp).location
              /\ Unwrap(task[t].resp).status \notin Range(task[t].responses)

\* C6: when the engine returns after a file write failed during the transfer,
\* no file is at the cache path and the disposition is Close
C6_NoPartialFile ==
    \A t \in DOMAIN task :
        (task[t].pc = "done" /\ task[t].file_failed > 0)
            => (~file.exists /\ task[t].ret = "Close")

\* C7: when the client sink fails during the copy of a persisted response and
\* no file write fails, every segment read from the origin is in the cache
\* file, the copy is not stopped by the sinks, and once the declared body has
\* been read the file's size is the declared Content-Length
C7_FileCompleteAfterClientFailure ==
    \A t \in DOMAIN task :
        (/\ task[t].pc \in {"copy", "shutdown", "done"}
         /\ Persisted(task[t])
         /\ task[t].client_failed > 0
         /\ task[t].file_failed = 0)
           => /\ file.exists
              /\ file.size = task[t].read
              /\ task[t].stopped # "sinks"
              /\ (/\ task[t].stopped = "complete"
                  /\ IsSome(Unwrap(task[t].resp).content_length))
                    => file.size = DecimalValue(Unwrap(Unwrap(task[t].resp).content_length))

\* the client failed at the first of MaxBody segments and the engine returned
\* with the whole body in the file
C7_Witness ==
    \E t \in DOMAIN task :
        /\ Pc(t) = "done"
        /\ task[t].client_failed = 1
        /\ task[t].file_failed = 0
        /\ task[t].stopped = "complete"
        /\ Unwrap(task[t].resp).content_length = Some(DecimalString(MaxBody))
        /\ file.exists
        /\ file.size = MaxBody

\* C8: a write failure on a sink sets that sink's flag to dead, and the copy
\* is stopped by the sinks only when both flags are dead
C8_FlagsTrackFailures ==
    \A t \in DOMAIN task :
        task[t].pc \in {"copy", "shutdown"}
            => /\ task[t].file_failed > 0 => ~task[t].write_file
               /\ task[t].client_failed > 0 => ~task[t].write_stream
               /\ task[t].stopped = "sinks"
                    => (~task[t].write_file /\ ~task[t].write_stream)

\* C9: Uri::new returns a Uri for every string
C9_UriNewNeverPanics ==
    IsSome(uriOut) => ~Unwrap(uriOut).panicked

\* C10: an AbsoluteAddress has (scheme or port), host and path; and whenever a
\* path is present, path_and_query is path, followed by '?' and the query when
\* there is a query
C10_KindAndPathQuery ==
    (IsSome(uriOut) /\ ~Unwrap(uriOut).panicked) =>
        LET u == Unwrap(uriOut)
        IN  /\ kind(u) = "AbsoluteAddress"
                => /\ IsSome(u.scheme) \/ IsSome(u.port)
                   /\ IsSome(u.host)
                   /\ IsSome(u.path)
            /\ IsSome(u.path)
                => /\ IsSome(u.path_and_query)
                   /\ Unwrap(u.path_and_query) =
                        IF IsSome(u.query)
                        THEN Unwrap(u.path) \o <<"?">> \o Unwrap(u.query)
                        ELSE Unwrap(u.path)

\* an AbsoluteAddress with a non-empty query was parsed
C10_Witness ==
    /\ IsSome(uriOut)
    /\ ~Unwrap(uriOut).panicked
    /\ kind(Unwrap(uriOut)) = "AbsoluteAddress"
    /\ IsSome(Unwrap(uriOut).query)
    /\ Unwrap(Unwrap(uriOut).query) # << >>

\* the token between the end of the scheme (or the string start) and the first
\* '/' after it
Authority(value) ==
    LET rest == SliceFrom(value, SchemeEnd(value))
        x == Find(rest, <<"/">>)
    IN  IF IsNone(x) THEN rest ELSE Slice(rest, 0, Unwrap(x))
\* what is written after the first ':' of the authority; None without a ':'
WrittenPort(value) ==
    LET x == Find(Authority(value), <<":">>)
    IN  IF IsNone(x) THEN None ELSE Some(SliceFrom(Authority(value), Unwrap(x) + 1))
\* s reads as a port number: decimal digits, an optional '+' before them, and a
\* value of at most 65535
IsPortNumber(s) ==
    LET d == IF s # << >> /\ s[1] = "+" THEN Tail(s) ELSE s
    IN  /\ d # << >>
        /\ \A i \in 1..Len(d) : IsDigit(d[i])
        /\ DecimalValue(d) <= 65535
PortNumber(s) == DecimalValue(IF s[1] = "+" THEN Tail(s) ELSE s)

\* C11: when a port is written after the host, before the first '/', the
\* parsed port is that number (absent when what is written is no port number)
\* and never the scheme's; when none is written the port is 80 for "http://",
\* 443 for "https://" and absent for any other or no scheme
C11_ExplicitPortFirst ==
    (IsSome(uriOut) /\ ~Unwrap(uriOut).panicked) =>
        LET u == Unwrap(uriOut)
            written == WrittenPort(uriIn)
        IN  IF IsSome(written)
            THEN u.port = IF IsPortNumber(Unwrap(written))
                          THEN Some(PortNumber(Unwrap(written))) ELSE None
            ELSE u.port = IF u.scheme = Some(HttpScheme) THEN Some(80)
                          ELSE IF u.scheme = Some(HttpsScheme) THEN Some(443)
                          ELSE None

\* a port other than 80 was written after the host of an "http://" address
C11_Witness ==
    /\ IsSome(uriOut)
    /\ ~Unwrap(uriOut).panicked
    /\ Unwrap(uriOut).scheme = Some(HttpScheme)
    /\ IsSome(Unwrap(uriOut).host)
    /\ Unwrap(uriOut).port = Some(9)
    /\ WrittenPort(uriIn) = Some(<<"9">>)

\* the token between the end of the scheme (or the string start) and the first
\* ':' or '/' after it, whichever comes first
HostToken(value) ==
    LET rest == SliceFrom(value, SchemeEnd(value))
        ends == { i \in 0..(Len(rest) - 1) : rest[i + 1] \in {":", "/"} }
    IN  IF ends = {} THEN rest
        ELSE Slice(rest, 0, CHOOSE i \in ends : \A j \in ends : i <= j)

\* C12: the parsed host, when present, is the token between the end of the
\* scheme (or the string start) and the first ':' or '/', whichever comes
\* first; it holds a '.' and neither ':' nor '/'
C12_HostToken ==
    (IsSome(uriOut) /\ ~Unwrap(uriOut).panicked /\ IsSome(Unwrap(uriOut).host)) =>
        LET host == Unwrap(Unwrap(uriOut).host)
        IN  /\ host = HostToken(uriIn)
            /\ Contains(host, ".")
            /\ ~Contains(host, ":")
            /\ ~Contains(host, "/")

\* C13: for every string that begins with '/', scheme, host and port are
\* absent, path is the part before the first '?', query the part after it
\* (absent without a '?'), path_and_query the whole string, and the kind is
\* AbsolutePath
C13_LeadingSlash ==
    (IsSome(uriOut) /\ StartsWith(uriIn, <<"/">>)) =>
        LET u == Unwrap(uriOut)
            mark == Find(uriIn, <<"?">>)
        IN  /\ ~u.panicked
            /\ IsNone(u.scheme)
            /\ IsNone(u.host)
            /\ IsNone(u.port)
            /\ u.path = Some(IF IsNone(mark) THEN uriIn
                             ELSE Slice(uriIn, 0, Unwrap(mark)))
            /\ u.query = IF IsNone(mark) THEN None
                         ELSE Some(SliceFrom(uriIn, Unwrap(mark) + 1))
            /\ u.path_and_query = Some(uriIn)
            /\ kind(u) = "AbsolutePath"

\* C14: every string with neither a dotted host token nor a leading '/' is
\* Invalid and has scheme, host, port, path, query and path_and_query absent
C14_InvalidHasNoFields ==
    (/\ IsSome(uriOut)
     /\ ~Unwrap(uriOut).panicked
     /\ ~StartsWith(uriIn, <<"/">>)
     /\ ~Contains(HostToken(uriIn), ".")) =>
        LET u == Unwrap(uriOut)
        IN  /\ kind(u) = "Invalid"
            /\ IsNone(u.scheme)
            /\ IsNone(u.host)
            /\ IsNone(u.port)
            /\ IsNone(u.path)
            /\ IsNone(u.query)
            /\ IsNone(u.path_and_query)

\* the target task t is about to connect to: the client's request target, or
\* the Location of the redirect being followed
ConnectTarget(t) ==
    IF task[t].pc = "from_uri" THEN task[t].request ELSE Unwrap(task[t].fetch_result)

\* C15: establishing a connection fails, with no TCP connection attempted,
\* whenever host_and_port() of the target is absent or its scheme is neither
\* "http://" nor "https://" (an absent scheme included); when it succeeds the
\* connection holds a copy of the target's string and no redirect
C15_ConnectPreconditions ==
    [][\A t \in DOMAIN task :
          (task[t].pc \in {"from_uri", "redirect"} /\ task'[t] # task[t]) =>
              LET u == UriNew(ConnectTarget(t))
              IN  /\ (\/ IsNone(host_and_port(u))
                      \/ u.scheme \notin {Some(HttpScheme), Some(HttpsScheme)})
                        => /\ IsNone(task'[t].conn)
                           /\ task'[t].tcp_attempts = task[t].tcp_attempts
                           /\ task'[t].sent = task[t].sent
                  /\ IsSome(task'[t].conn)
                        => /\ Unwrap(task'[t].conn).uri = ConnectTarget(t)
                           /\ IsNone(Unwrap(task'[t].conn).redirect)
                           /\ task'[t].tcp_attempts = task[t].tcp_attempts + 1]_vars

\* a client asked for a host:port/path target without a scheme: the request
\* ended with no TCP connection attempted
C15_Witness ==
    \E t \in DOMAIN task :
        /\ Pc(t) = "done"
        /\ task[t].request = NoSchemeTarget
        /\ IsSome(host_and_port(UriNew(task[t].request)))
        /\ task[t].tcp_attempts = 0
        /\ task[t].sent = << >>
        /\ task[t].responses = << 500 >>

\* task t is about to call from_uri, or redirect for a Location that passed the
\* hop and cycle checks and that Uri::from returns a Uri for
Connecting(t) ==
    \/ task[t].pc = "from_uri"
    \/ /\ task[t].pc = "redirect"
       /\ ~hop_limit_exceeded(task[t].redirects)
       /\ ~already_visited(task[t].redirects, Unwrap(task[t].fetch_result))
       /\ ~UriNew(Unwrap(task[t].fetch_result)).panicked

\* C16: when building or connecting the origin connection fails, for the
\* client's target or for a redirect target, the engine answers 500, returns
\* Close and sends no request to any origin in that step
C16_ConnectFailure ==
    [][\A t \in DOMAIN task :
          (Connecting(t) /\ task'[t] # task[t] /\ IsNone(task'[t].conn)) =>
              /\ task'[t].pc = "done"
              /\ task'[t].ret = "Close"
              /\ task'[t].responses = Append(task[t].responses, 500)
              /\ task'[t].sent = task[t].sent]_vars

\* after a followed redirect the reconnect to the next target was attempted
\* and failed
C16_Witness ==
    \E t \in DOMAIN task :
        /\ Pc(t) = "done"
        /\ Len(task[t].redirects) = 3
        /\ task[t].reconnects = 1
        /\ task[t].tcp_attempts = 3
        /\ Len(task[t].sent) = 2
        /\ task[t].responses = << 500 >>
        /\ task[t].ret = "Close"

\* C17: in every request sent to an origin the Host header is host_and_port()
\* of the target being fetched, "host:port"; the i-th request is the one
\* for the i-th target of the history
C17_HostHeader ==
    \A t \in DOMAIN task :
        \A i \in 1..Len(task[t].sent) :
            /\ "Host" \in DOMAIN task[t].sent[i].headers
            /\ Some(task[t].sent[i].headers["Host"])
                 = host_and_port(UriNew(task[t].redirects[i]))

\* the request is the one the engine builds for `target` from the client
\* header `client`: GET, the target's path_and_query, no Range, and every
\* other header of the client but Host as the client sent it
RequestFor(req, target, client) ==
    /\ req.method = "GET"
    /\ Some(req.request) = UriNew(target).path_and_query
    /\ "Range" \notin DOMAIN req.headers
    /\ DOMAIN req.headers \ {"Host"} = DOMAIN client \ {"Host", "Range"}
    /\ \A n \in DOMAIN req.headers \ {"Host"} : req.headers[n] = client[n]

\* C18: every request sent to an origin, the first and the one after each
\* followed redirect, is GET for the current target's path_and_query, without
\* Range and with every other client header but Host unchanged; and no step
\* changes the client's own request header
C18_OutgoingRequest ==
    [][\A t \in DOMAIN task :
          /\ \A i \in 1..Len(task'[t].sent) :
                RequestFor(task'[t].sent[i], task'[t].redirects[i], task[t].headers)
          /\ task'[t].headers = task[t].headers
          /\ task'[t].version = task[t].version
          /\ task'[t].request = task[t].request]_vars

\* a client that sent Range, Host and Accept had its request sent to a second
\* origin after a redirect
C18_Witness ==
    \E t \in DOMAIN task :
        /\ DOMAIN task[t].headers = {"Accept", "Host", "Range"}
        /\ Len(task[t].sent) = 2
        /\ task[t].reconnects = 1
        /\ task[t].sent[2].request # task[t].sent[1].request
        /\ DOMAIN task[t].sent[2].headers = {"Accept", "Host"}
        /\ task[t].sent[2].headers["Accept"] = task[t].headers["Accept"]

\* the Framing step of task t answers `status` and registers nothing
FramingAnswers(t, status) ==
    /\ task'[t].pc = "done"
    /\ task'[t].responses = Append(task[t].responses, status)
    /\ task'[t].takeoffs = task[t].takeoffs
    /\ flights' = flights
\* the Framing step of task t registers `state` and starts the copy
FramingRegisters(t, state) ==
    /\ task'[t].pc = "copy"
    /\ task'[t].takeoffs = task[t].takeoffs + 1
    /\ flights'[CacheKey] = Some(state)
\* the Content-Length rule: 500 when absent, 400 when no number, else Length(n)
\* is registered and n is what the copy has to deliver
FramingByContentLength(t, r) ==
    IF IsNone(r.content_length) THEN FramingAnswers(t, 500)
    ELSE IF IsNone(ParseU64(Unwrap(r.content_length))) THEN FramingAnswers(t, 400)
    ELSE LET n == Unwrap(ParseU64(Unwrap(r.content_length)))
         IN  FramingRegisters(t, Length(n)) /\ task'[t].left = n
\* takeoff is called at most once for an origin response, and only in the
\* Framing step of a 200 response
TakeoffOnlyFor200(t) ==
    /\ task'[t].takeoffs <= 1
    /\ (task'[t].takeoffs # task[t].takeoffs \/ flights' # flights)
          => /\ task[t].pc = "framing"
             /\ Unwrap(task[t].resp).status = 200
             /\ \A o \in DOMAIN task : o # t => task'[o] = task[o]

\* C19 as stated: a chunked 200 response registers Chunks and starts the
\* chunked copy; every other 200 response goes by the Content-Length rule;
\* takeoff is called at most once per origin response and never for another
\* status
C19_FramingAsStated ==
    [][\A t \in DOMAIN task :
          /\ (task[t].pc = "framing" /\ task'[t] # task[t]) =>
                LET r == Unwrap(task[t].resp)
                IN  IF r.transfer_encoding = Some("chunked")
                    THEN FramingRegisters(t, Chunks)
                    ELSE FramingByContentLength(t, r)
          /\ (task'[t] # task[t]) => TakeoffOnlyFor200(t)]_vars

\* C19, amended: a chunked 200 response registers Chunks and starts the
\* chunked copy; a 200 response with any other Transfer-Encoding is answered
\* 400 and registers nothing, whatever its Content-Length; a 200 response
\* without Transfer-Encoding goes by the Content-Length rule; takeoff is called
\* at most once per origin response and never for another status
C19_Framing ==
    [][\A t \in DOMAIN task :
          /\ (task[t].pc = "framing" /\ task'[t] # task[t]) =>
                LET r == Unwrap(task[t].resp)
                IN  IF r.transfer_encoding = Some("chunked")
                    THEN FramingRegisters(t, Chunks)
                    ELSE IF IsSome(r.transfer_encoding)
                    THEN FramingAnswers(t, 400)
                    ELSE FramingByContentLength(t, r)
          /\ (task'[t] # task[t]) => TakeoffOnlyFor200(t)]_vars

\* a 200 response with Transfer-Encoding gzip and a numeric Content-Length was
\* answered 400 after its header had been passed on, with nothing registered
C19_Witness ==
    \E t \in DOMAIN task :
        /\ Pc(t) = "done"
        /\ IsSome(task[t].resp)
        /\ Unwrap(task[t].resp).status = 200
        /\ Unwrap(task[t].resp).transfer_encoding = Some("gzip")
        /\ IsSome(Unwrap(task[t].resp).content_length)
        /\ IsSome(ParseU64(Unwrap(Unwrap(task[t].resp).content_length)))
        /\ task[t].responses = << 200, 400 >>
        /\ task[t].takeoffs = 0
        /\ IsNone(flights[CacheKey])

\* C20: every redirect error (a redirect response without Location, the hop
\* limit exceeded, a target already visited) ends the request with the
\* response 400 or 500 and the disposition Close, whether or not the client
\* asked to keep the connection alive
C20_RedirectErrorsClose ==
    [][\A t \in DOMAIN task :
          (/\ task'[t] # task[t]
           /\ \/ /\ task[t].pc = "await_header"
                 /\ IsSome(task'[t].resp)
                 /\ redirect_arm(Unwrap(task'[t].resp).status)
                 /\ IsNone(Unwrap(task'[t].resp).location)
              \/ /\ task[t].pc = "redirect"
                 /\ \/ hop_limit_exceeded(task[t].redirects)
                    \/ already_visited(task[t].redirects,
                                       Unwrap(task[t].fetch_result)))
            => /\ task'[t].pc = "done"
               /\ \E status \in {400, 500} :
                    task'[t].responses = Append(task[t].responses, status)
               /\ task'[t].ret = "Close"]_vars

\* every task has returned (or panicked): no step is left to take, and what
\* the registry holds now it holds for ever
AllReturned == \A t \in DOMAIN task : task[t].pc \in {"done", "panicked"}

\* C21: once a fetch that registered a flight for the key has finished, the
\* registry eventually holds no registration for the key: when every task has
\* returned, no registration is left
C21_FlightRetired ==
    (AllReturned /\ \E t \in DOMAIN task : task[t].takeoffs > 0)
        => IsNone(flights[CacheKey])

\* C22: for a 200 response with Cache-Control no-store or private nothing is
\* written to the file, and when the whole body has been copied with the client
\* sink still live the engine returns the disposition the client asked for
C22_NoStoreKeepsAlive ==
    \A t \in DOMAIN task :
        (/\ IsSome(task[t].resp)
         /\ Unwrap(task[t].resp).status = 200
         /\ Unwrap(task[t].resp).cache_control \in {Some("no-store"), Some("private")}
         /\ task[t].pc \in {"copy", "shutdown", "done"})
           => /\ ~task[t].write_file
              /\ task[t].offset = 0
              /\ task[t].file_failed = 0
              /\ (/\ task[t].pc = "done"
                  /\ task[t].stopped = "complete"
                  /\ task[t].client_failed = 0)
                    => task[t].ret = keep_alive_if(task[t])

\* C23: on a 200 response the header has been written to the client before any
\* body segment is offered to the client and before the flight is registered;
\* when the header write fails no segment is copied, nothing is registered
\* and the engine returns Close
C23_HeaderFirst ==
    \A t \in DOMAIN task :
        /\ (task[t].read > 0 \/ task[t].takeoffs > 0
              \/ task[t].pc \in {"framing", "copy", "shutdown"})
             => (task[t].header = "written" /\ task[t].responses[1] = 200)
        /\ task[t].header = "failed"
             => /\ task[t].pc = "done"
                /\ task[t].ret = "Close"
                /\ task[t].read = 0
                /\ task[t].takeoffs = 0
                /\ task[t].responses = << 200 >>

\* the write of the 200 header failed for a keep-alive client
C23_Witness ==
    \E t \in DOMAIN task :
        /\ Pc(t) = "done"
        /\ task[t].header = "failed"
        /\ task[t].keep_alive
        /\ task[t].ret = "Close"

\* C24: every run of the engine returns, and what it returns is Close or
\* KeepAlive: no task in the engine ends without returning, and a returned
\* engine has returned one of the two, never Redirect(location)
C24_EngineReturns ==
    \A t \in DOMAIN task :
        task[t].fetching
            => /\ task[t].pc # "panicked"
               /\ task[t].pc = "done" => task[t].ret \in {"Close", "KeepAlive"}

\* C25: no write is attempted on a sink after one of its writes has failed,
\* also when the file write and the client write of one segment both fail
C25_NoWriteAfterFailure ==
    \A t \in DOMAIN task : ~task[t].late_write

\* C26: when the engine has returned for a request that found no file at the
\* cache path, a file is at the path only if the whole body of a persisted 200
\* response was copied into it
C26_FileOnlyWhenComplete ==
    \A t \in DOMAIN task :
        (task[t].fetching /\ task[t].pc = "done" /\ file.exists)
            => /\ IsSome(task[t].resp)
               /\ Unwrap(task[t].resp).status = 200
               /\ Persisted(task[t])
               /\ task[t].stopped = "complete"
               /\ task[t].file_failed = 0
               /\ file.size = task[t].read

\* C27: for one client request the engine writes at most one response header
\* to the client
C27_OneResponseHeader ==
    \A t \in DOMAIN task : task[t].fetching => Len(task[t].responses) <= 1

\* C28: the engine never returns KeepAlive after it has shut down the write
\* side of the client stream during that request
C28_KeepAliveNotAfterShutdown ==
    \A t \in DOMAIN task :
        (task[t].fetching /\ Pc(t) = "done" /\ task[t].ret = "KeepAlive")
            => ~task[t].client_shutdown

\* task u has created the cache file and has not finished copying into it
StillWriting(u) ==
    /\ task[u].fetching
    /\ task[u].pc \in {"write_header", "framing", "copy"}
    /\ task[u].handle # "none"

\* C29: a client is never answered from the cache file while another task is
\* still writing it (the answer would carry the partial size as Content-Length)
C29_NoPartialServe ==
    [][\A t \in DOMAIN task :
          (IsNone(task[t].served) /\ IsSome(task'[t].served))
              => ~\E u \in DOMAIN task \ {t} : StillWriting(u)]_vars

\* C30: for every parsed string the path, when present, begins with '/', and
\* the kind is Invalid exactly when the path is absent; so a string with a
\* scheme and a dotted host but no '/' after the scheme is Invalid, and a
\* string with a path but no host is AbsolutePath whatever its scheme or port
C30_KindAndPath ==
    (IsSome(uriOut) /\ ~Unwrap(uriOut).panicked) =>
        LET u == Unwrap(uriOut)
        IN  /\ IsSome(u.path) => StartsWith(Unwrap(u.path), <<"/">>)
            /\ kind(u) = "Invalid" <=> IsNone(u.path)
            /\ (/\ IsSome(u.scheme)
                /\ IsSome(u.host)
                /\ Contains(Unwrap(u.host), ".")
                /\ ~Contains(SliceFrom(uriIn, SchemeEnd(uriIn)), "/"))
                  => kind(u) = "Invalid"
            /\ (IsSome(u.path) /\ IsNone(u.host)) => kind(u) = "AbsolutePath"

\* a string with a scheme, a port and a path but no dotted host was parsed and
\* classified AbsolutePath
C30_Witness ==
    /\ IsSome(uriOut)
    /\ ~Unwrap(uriOut).panicked
    /\ IsSome(Unwrap(uriOut).scheme)
    /\ IsSome(Unwrap(uriOut).port)
    /\ IsNone(Unwrap(uriOut).host)
    /\ IsSome(Unwrap(uriOut).path)
    /\ ~StartsWith(uriIn, <<"/">>)
    /\ kind(Unwrap(uriOut)) = "AbsolutePath"

====
